---------------------------- MODULE Spec2Model ----------------------------
(***************************************************************************)
(* Model of the API automation demo: the synthetic-data generator          *)
(* (utils/data-generator.js) and the workflow scripts that chain its       *)
(* output through HTTP calls (tests/api/posts.spec.js).                    *)
(*                                                                         *)
(* JavaScript values are records [t |-> tag, v |-> payload]; the payload's *)
(* shape depends on the tag, so values are always compared tag first.      *)
(***************************************************************************)
EXTENDS Integers, Sequences, FiniteSets, TLC

VARIABLES
    fn,       \* generator: name of the DataGenerator method called last
    arg,      \* generator: the first argument of that call
    ret,      \* generator: the value the call returned
    threw,    \* generator: TRUE when the call raised instead of returning
    live,     \* generator: per kind, the first edge-case array handed out, as
              \* the caller that holds it sees it now
    seen,     \* generator: per kind, what the first generateEdgeCases call returned
    cw_pc,            \* complete workflow: the await the script is suspended at
    cw_inflight,      \* complete workflow: the requests sent and not yet answered
    cw_selectedUser,  \* complete workflow: users[0]
    cw_postData,      \* complete workflow: generatePost(selectedUser.id)
    cw_createdPost,   \* complete workflow: the body of the POST /posts response
    cw_commentData,   \* complete workflow: generateComment(createdPost.id)
    cw_createdComment,\* complete workflow: the body of the POST /comments response
    cw_outcome,       \* complete workflow: "running", "passed", "assert_failed"
                      \* or "threw"
    cw_sent,          \* complete workflow: the requests issued so far, in order
    cw_responses,     \* complete workflow: the statuses of the responses received
    cw_finalPost,     \* complete workflow: the body of the final GET, when parsed
    pw_pc,        \* parallel workflow: where the script is
    pw_fetch,     \* parallel workflow: the 3 GET requests of the first batch
    pw_create,    \* parallel workflow: the 5 POST requests of the second batch
    pw_i,         \* parallel workflow: the loop variable i of the creation loop
    pw_asserted,  \* parallel workflow: how many created responses forEach checked
    pw_outcome,   \* parallel workflow: "running", "passed", "assert_failed"
                  \* or "threw"
    cfg_file,     \* runner: the configuration file loaded ("none" before)
    cfg_env,      \* runner: process.env as the configuration file read it
    cfg,          \* runner: the settings the configuration resolved to
    gs_pc,        \* global setup: the await globalSetup is suspended at
    gs_k,         \* global setup: the index of the endpoint being verified
    gs_inflight,  \* global setup: the fetches sent and not yet settled
    gs_fetched,   \* global setup: the URLs fetched so far, in order
    gs_log,       \* global setup: the console output so far, one tag per line
    gs_outcome,   \* global setup: "running", "returned" or "threw"
    mp_pc,        \* multiple posts: the await the test is suspended at
    mp_postData,  \* multiple posts: postData of the current iteration
    mp_titles,    \* multiple posts: the titles generatePost() produced so far
    mp_createdPosts, \* multiple posts: createdPosts
    mp_sent,      \* multiple posts: the requests issued so far, in order
    mp_responses, \* multiple posts: the statuses received so far, in order
    mp_outcome,   \* multiple posts: "running", "passed", "assert_failed"
                  \* or "threw"
    cx_pc,        \* complex workflow: the await the test is suspended at
    cx_users,     \* complex workflow: workflowResults.users
    cx_posts,     \* complex workflow: workflowResults.posts
    cx_comments,  \* complex workflow: workflowResults.comments
    cx_relationships, \* complex workflow: workflowResults.relationships
    cx_commentData,   \* complex workflow: commentData of the request in flight
    cx_seed,      \* complex workflow: the state of the random source when
                  \* Phase 3 began
    cx_sent,      \* complex workflow: the requests issued so far, in order
    cx_outcome,   \* complex workflow: "running", "passed", "assert_failed"
                  \* or "threw"
    es_pc,        \* error scenarios: the await the test is suspended at
    es_users,     \* error scenarios: users, the body of GET /users
    es_userToUse, \* error scenarios: userToUse
    es_fallbackPostData, \* error scenarios: fallbackPostData
    es_caught,    \* error scenarios: whether the catch block ran
    es_sent,      \* error scenarios: the requests issued so far, in order
    es_responses, \* error scenarios: the statuses received so far, in order
    es_outcome    \* error scenarios: "running", "passed", "assert_failed"
                  \* or "threw"

genVars == <<fn, arg, ret, threw, live, seen>>
cwVars == <<cw_pc, cw_inflight, cw_selectedUser, cw_postData, cw_createdPost,
            cw_commentData, cw_createdComment, cw_outcome, cw_sent,
            cw_responses, cw_finalPost>>
pwVars == <<pw_pc, pw_fetch, pw_create, pw_i, pw_asserted, pw_outcome>>
cfgVars == <<cfg_file, cfg_env, cfg>>
gsVars == <<gs_pc, gs_k, gs_inflight, gs_fetched, gs_log, gs_outcome>>
mpVars == <<mp_pc, mp_postData, mp_titles, mp_createdPosts, mp_sent,
           mp_responses, mp_outcome>>
cxVars == <<cx_pc, cx_users, cx_posts, cx_comments, cx_relationships,
           cx_commentData, cx_seed, cx_sent, cx_outcome>>
esVars == <<es_pc, es_users, es_userToUse, es_fallbackPostData, es_caught,
           es_sent, es_responses, es_outcome>>
wfVars == <<cwVars, pwVars, cfgVars, gsVars, mpVars, cxVars, esVars>>
vars == <<genVars, wfVars>>

-----------------------------------------------------------------------------
(* JavaScript values *)

Undefined == [t |-> "undefined", v |-> 0]
Null == [t |-> "null", v |-> 0]
\* a number n/d; integers have d = 1
Frac(n, d) == [t |-> "number", v |-> <<n, d>>]
Num(n) == Frac(n, 1)
Str(s) == [t |-> "string", v |-> s]
Bool(b) == [t |-> "boolean", v |-> b]
Arr(seq) == [t |-> "array", v |-> seq]
Obj(props) == [t |-> "object", v |-> props]
Fn(name) == [t |-> "function", v |-> name]

EmptyProps == [k \in {} |-> Undefined]
EmptyArray == Arr(<<>>)
EmptyObject == Obj(EmptyProps)

IsInt(x) == x.t = "number" /\ x.v[2] = 1
IntOf(x) == x.v[1]
IsEmptyArray(x) == x.t = "array" /\ Len(x.v) = 0
IsEmptyObject(x) == x.t = "object" /\ DOMAIN x.v = {}

\* ToBoolean, as the || and ?: operators apply it
Truthy(x) ==
    CASE x.t = "undefined" -> FALSE
      [] x.t = "null" -> FALSE
      [] x.t = "number" -> x.v[1] # 0
      [] x.t = "string" -> x.v # ""
      [] x.t = "boolean" -> x.v
      [] OTHER -> TRUE

\* a || b
Or(a, b) == IF Truthy(a) THEN a ELSE b

\* a parameter declared `p = dflt`: the default replaces undefined only
DefaultParam(a, dflt) == IF a.t = "undefined" THEN dflt ELSE a

\* the names every plain object inherits from Object.prototype
ObjectPrototypeMembers ==
    {"constructor", "toString", "toLocaleString", "valueOf",
     "hasOwnProperty", "isPrototypeOf", "propertyIsEnumerable"}

ObjectPrototype == Obj([k \in ObjectPrototypeMembers |-> Fn(k)])

\* obj[key] on an object literal with own properties `own`: own property,
\* else the prototype chain, else undefined
Get(own, key) ==
    IF key \in DOMAIN own THEN own[key]
    ELSE IF key = "__proto__" THEN ObjectPrototype
    ELSE IF key \in ObjectPrototypeMembers THEN Fn(key)
    ELSE Undefined

-----------------------------------------------------------------------------
(* The random source *)

\* the raw values the random source yields are 0..MaxRaw
MaxRaw == 109
Raws == 0..MaxRaw

\* faker.number.int({min, max}): the raw value scaled into [min, max]
faker_number_int(min, max, raw) == min + (raw % (max - min + 1))

\* faker.lorem.sentence(..): the sentences the source can produce
Sentences == {"lorem ipsum dolor", "sit amet consectetur", "adipiscing elit sed"}

\* The source is a seeded stream: the i-th draw after it was in state `seed`.
RawAt(seed, i) == (seed + i * 37) % (MaxRaw + 1)
SentenceAt(seed, i) ==
    CASE RawAt(seed, i) % 3 = 0 -> "lorem ipsum dolor"
      [] RawAt(seed, i) % 3 = 1 -> "sit amet consectetur"
      [] OTHER -> "adipiscing elit sed"
FlagAt(seed, i) == RawAt(seed, i) % 3 = 0

\* faker.lorem.paragraph() / paragraphs(..): one representative text
Paragraph == "dolor sit amet. consectetur adipiscing."

-----------------------------------------------------------------------------
(* DataGenerator: the value objects *)

generateUser ==
    Obj([name |-> Str("Jane Roe"),
         username |-> Str("jane.roe"),
         email |-> Str("jane@example.net"),
         phone |-> Str("555-0100"),
         website |-> Str("https://example.net"),
         address |-> Obj([street |-> Str("1 Main St"),
                          suite |-> Str("Apt. 2"),
                          city |-> Str("Springfield"),
                          zipcode |-> Str("00001"),
                          geo |-> Obj([lat |-> Str("10.0000"),
                                       lng |-> Str("20.0000")])]),
         company |-> Obj([name |-> Str("Roe LLC"),
                          catchPhrase |-> Str("synergy"),
                          bs |-> Str("e-enable")])])

generatePostOffByOne(userId, sentence, raw) ==
    Obj([title |-> Str(sentence),
         body |-> Str(Paragraph),
         userId |-> Or(DefaultParam(userId, Null),
                       Num(faker_number_int(0, 10, raw)))])

\* generatePost(userId = null), with the values its faker calls produced
generatePost(userId, sentence, raw) ==
    Obj([title |-> Str(sentence),
         body |-> Str(Paragraph),
         userId |-> Or(DefaultParam(userId, Null),
                       Num(faker_number_int(1, 10, raw)))])

generateCommentOffByOne(postId, sentence, raw) ==
    Obj([name |-> Str(sentence),
         email |-> Str("jane@example.net"),
         body |-> Str(Paragraph),
         postId |-> Or(DefaultParam(postId, Null),
                       Num(faker_number_int(1, 101, raw)))])

\* generateComment(postId = null)
generateComment(postId, sentence, raw) ==
    Obj([name |-> Str(sentence),
         email |-> Str("jane@example.net"),
         body |-> Str(Paragraph),
         postId |-> Or(DefaultParam(postId, Null),
                       Num(faker_number_int(1, 100, raw)))])

\* generateTodo(userId = null)
generateTodo(userId, sentence, flag, raw) ==
    Obj([title |-> Str(sentence),
         completed |-> Bool(flag),
         userId |-> Or(DefaultParam(userId, Null),
                       Num(faker_number_int(1, 10, raw)))])

-----------------------------------------------------------------------------
(* DataGenerator: the table lookups *)

\* String.prototype.repeat
RECURSIVE Repeat(_, _)
Repeat(s, n) ==
    IF n = 0 THEN ""
    ELSE IF n % 2 = 1 THEN s \o Repeat(s, n - 1)
    ELSE LET half == Repeat(s, n \div 2) IN half \o half

EdgeKinds == {"string", "number", "email", "boolean"}

\* the arrays written in the object literal `edgeCases`
edgeCasesLiteral ==
    [string |-> Arr(<<Str(""), Str(" "), Str(Repeat("a", 1000)),
                      Str("<cjk: special character test>"),
                      Str("<emoji: rocket dizzy sparkles>")>>),
     number |-> Arr(<<Num(0), Num(-1), Num(999999999), Num(-999999999),
                      Frac(3, 2), Frac(-3, 2)>>),
     email |-> Arr(<<Str("invalid-email"), Str("@domain.com"), Str("user@"),
                     Str("user@domain")>>),
     boolean |-> Arr(<<Bool(TRUE), Bool(FALSE), Str("true"), Str("false"),
                       Num(1), Num(0)>>)]

edgeCasesShared(held) ==
    [k \in EdgeKinds |->
        IF held[k].t = "array" THEN held[k] ELSE edgeCasesLiteral[k]]

\* `const edgeCases = {..}` runs on each call: its arrays are new objects,
\* none of them one of the arrays `held` by the callers of earlier calls
edgeCases(held) == edgeCasesLiteral

\* generateEdgeCases(dataType): edgeCases[dataType] || []
generateEdgeCases(dataType, held) == Or(Get(edgeCases(held), dataType), EmptyArray)

Endpoints == {"/posts", "/users", "/comments", "/todos"}

\* the object literal `scenarios`; every generator call in it runs on each call
scenarios(s1, r1, s2, s3, r3) ==
    [e \in {"/posts", "/users", "/comments"} |->
        CASE e = "/posts" ->
               Arr(<<Obj([method |-> Str("GET"),
                          description |-> Str("Fetch all posts")]),
                     Obj([method |-> Str("GET"), path |-> Str("/1"),
                          description |-> Str("Fetch specific post")]),
                     Obj([method |-> Str("POST"),
                          data |-> generatePost(Undefined, s1, r1),
                          description |-> Str("Create new post")]),
                     Obj([method |-> Str("PUT"), path |-> Str("/1"),
                          data |-> generatePost(Num(1), s2, r1),
                          description |-> Str("Update post")]),
                     Obj([method |-> Str("DELETE"), path |-> Str("/1"),
                          description |-> Str("Delete post")])>>)
          [] e = "/users" ->
               Arr(<<Obj([method |-> Str("GET"),
                          description |-> Str("Fetch all users")]),
                     Obj([method |-> Str("GET"), path |-> Str("/1"),
                          description |-> Str("Fetch specific user")]),
                     Obj([method |-> Str("POST"), data |-> generateUser,
                          description |-> Str("Create new user")])>>)
          [] e = "/comments" ->
               Arr(<<Obj([method |-> Str("GET"),
                          description |-> Str("Fetch all comments")]),
                     Obj([method |-> Str("GET"), path |-> Str("/1"),
                          description |-> Str("Fetch specific comment")]),
                     Obj([method |-> Str("POST"),
                          data |-> generateComment(Undefined, s3, r3),
                          description |-> Str("Create new comment")])>>)]

\* generateTestScenarios(apiEndpoint): scenarios[apiEndpoint] || []
generateTestScenarios(apiEndpoint, s1, r1, s2, s3, r3) ==
    Or(Get(scenarios(s1, r1, s2, s3, r3), apiEndpoint), EmptyArray)

\* the object literal `dataMap`: endpoint -> arrow function
dataMap == [e \in Endpoints |-> Fn(e)]

\* dataMap[endpoint](): a call of the looked-up value f with this = dataMap and
\* no arguments; [threw, value]
Invoke(f, sentence, flag, raw) ==
    IF f.t # "function" THEN [threw |-> TRUE, value |-> Str("TypeError")]
    ELSE [threw |-> FALSE,
          value |->
            CASE f.v = "/posts" -> generatePost(Undefined, sentence, raw)
              [] f.v = "/users" -> generateUser
              [] f.v = "/comments" -> generateComment(Undefined, sentence, raw)
              [] f.v = "/todos" -> generateTodo(Undefined, sentence, flag, raw)
              [] f.v = "constructor" -> EmptyObject
              [] f.v = "valueOf" -> Obj(dataMap)
              [] f.v \in {"toString", "toLocaleString"} -> Str("[object Object]")
              [] OTHER -> Bool(FALSE)]

\* generateApiTestData(endpoint, method = 'POST'):
\* dataMap[endpoint] ? dataMap[endpoint]() : {}
generateApiTestData(endpoint, method, sentence, flag, raw) ==
    IF Truthy(Get(dataMap, endpoint))
    THEN Invoke(Get(dataMap, endpoint), sentence, flag, raw)
    ELSE [threw |-> FALSE, value |-> EmptyObject]

-----------------------------------------------------------------------------
(* Calls of the generator *)

\* the largest magnitude of the small integers passed as ids
MaxArg == 12

IdArgs == {Undefined, Null} \cup {Num(n) : n \in (-MaxArg..MaxArg) \cup {9999}}

KeyArgs ==
    EdgeKinds \cup Endpoints \cup ObjectPrototypeMembers
        \cup {"__proto__", "", "unknown", "/albums"}

Methods == {Undefined, Str("POST"), Str("GET")}

InitGen ==
    /\ fn = "none"
    /\ arg = Undefined
    /\ ret = Undefined
    /\ threw = FALSE
    /\ live = [k \in EdgeKinds |-> Undefined]
    /\ seen = [k \in EdgeKinds |-> Undefined]

\* a test calls the generator when it holds no result of an earlier call
CallGenerateUser ==
    /\ fn = "none"
    /\ fn' = "generateUser"
    /\ arg' = Undefined
    /\ ret' = generateUser
    /\ threw' = FALSE
    /\ UNCHANGED <<live, seen, wfVars>>

CallGeneratePost ==
    /\ fn = "none"
    /\ \E a \in IdArgs, seed \in Raws :
        /\ fn' = "generatePost"
        /\ arg' = a
        /\ ret' = generatePost(a, SentenceAt(seed, 0), RawAt(seed, 2))
        /\ threw' = FALSE
        /\ UNCHANGED <<live, seen, wfVars>>

CallGenerateComment ==
    /\ fn = "none"
    /\ \E a \in IdArgs, seed \in Raws :
        /\ fn' = "generateComment"
        /\ arg' = a
        /\ ret' = generateComment(a, SentenceAt(seed, 0), RawAt(seed, 3))
        /\ threw' = FALSE
        /\ UNCHANGED <<live, seen, wfVars>>

CallGenerateTodo ==
    /\ fn = "none"
    /\ \E a \in IdArgs, seed \in Raws :
        /\ fn' = "generateTodo"
        /\ arg' = a
        /\ ret' = generateTodo(a, SentenceAt(seed, 0), FlagAt(seed, 1), RawAt(seed, 2))
        /\ threw' = FALSE
        /\ UNCHANGED <<live, seen, wfVars>>

CallGenerateTestScenarios ==
    /\ fn = "none"
    /\ \E e \in KeyArgs, seed \in Raws :
        /\ fn' = "generateTestScenarios"
        /\ arg' = Str(e)
        /\ ret' = generateTestScenarios(e, SentenceAt(seed, 0), RawAt(seed, 2),
                                        SentenceAt(seed, 3), SentenceAt(seed, 5),
                                        RawAt(seed, 8))
        /\ threw' = FALSE
        /\ UNCHANGED <<live, seen, wfVars>>

CallGenerateApiTestData ==
    /\ fn = "none"
    /\ \E e \in KeyArgs, m \in Methods, seed \in Raws :
        LET out == generateApiTestData(e, m, SentenceAt(seed, 0), FlagAt(seed, 1),
                                       RawAt(seed, 2)) IN
        /\ fn' = "generateApiTestData"
        /\ arg' = Str(e)
        /\ ret' = IF out.threw THEN Undefined ELSE out.value
        /\ threw' = out.threw
        /\ UNCHANGED <<live, seen, wfVars>>

CallGenerateEdgeCases ==
    /\ fn = "none"
    /\ \E k \in KeyArgs :
        LET out == generateEdgeCases(k, live) IN
        /\ fn' = "generateEdgeCases"
        /\ arg' = Str(k)
        /\ ret' = out
        /\ threw' = FALSE
        /\ live' = IF k \in EdgeKinds /\ live[k].t = "undefined"
                   THEN [live EXCEPT ![k] = out] ELSE live
        /\ seen' = IF k \in EdgeKinds /\ seen[k].t = "undefined"
                   THEN [seen EXCEPT ![k] = out] ELSE seen
        /\ UNCHANGED wfVars

\* between two generator calls, a caller changes an array it got from
\* generateEdgeCases: arr.length = 0 or arr[0] = 'changed'
CallerMutates ==
    \E k \in EdgeKinds :
        /\ fn = "none"
        /\ live[k].t = "array"
        /\ Len(live[k].v) > 0
        /\ \/ live' = [live EXCEPT ![k] = EmptyArray]
           \/ live' = [live EXCEPT ![k] = Arr([live[k].v EXCEPT ![1] = Str("changed")])]
        /\ UNCHANGED <<fn, arg, ret, threw, seen, wfVars>>

\* the test is done with the returned value
Discard ==
    /\ fn # "none"
    /\ fn' = "none"
    /\ arg' = Undefined
    /\ ret' = Undefined
    /\ threw' = FALSE
    /\ UNCHANGED <<live, seen, wfVars>>

-----------------------------------------------------------------------------
(* The API, as the scripts see it *)

\* the largest of the small ids the API hands out
MaxApiId == 2

\* the ids the API may assign to a created resource
ApiIds == {Num(n) : n \in (-1..MaxApiId) \cup {101}}

\* the ids of the users the API lists
UserIds == 0..MaxApiId

\* the longest user list the API returns
MaxUsers == 2

ApiUser(i) == Obj([id |-> Num(i), name |-> Str("user")])

\* the bodies GET /users may return
UserLists == UNION {[1..n -> {ApiUser(i) : i \in UserIds}] : n \in 0..MaxUsers}

Statuses == {200, 201, 404, 500}

\* expect(a).toBe(b)
ToBe(a, b) == a.t = b.t /\ a.v = b.v

-----------------------------------------------------------------------------
(* 'complete user-post-comment workflow with data validation' *)

InitComplete ==
    /\ cw_pc = "start"
    /\ cw_inflight = {}
    /\ cw_selectedUser = Undefined
    /\ cw_postData = Undefined
    /\ cw_createdPost = Undefined
    /\ cw_commentData = Undefined
    /\ cw_createdComment = Undefined
    /\ cw_outcome = "running"
    /\ cw_sent = <<>>
    /\ cw_responses = <<>>
    /\ cw_finalPost = Undefined

\* the test ends here: an expect failed ("assert_failed") or a request or a
\* property access raised ("threw")
CwEnds(how) ==
    /\ cw_pc' = "done"
    /\ cw_outcome' = how
    /\ cw_inflight' = {}
    /\ cw_sent' = cw_sent

\* the script issues its next request and is suspended at `at`
CwSends(req, at) ==
    /\ cw_inflight' = {req}
    /\ cw_sent' = Append(cw_sent, req)
    /\ cw_pc' = at
    /\ UNCHANGED cw_outcome

\* Step 1: await request.get('/users')
CwGetUsers ==
    /\ cw_pc = "start"
    /\ cw_inflight' = cw_inflight \cup {"GET /users"}
    /\ cw_sent' = Append(cw_sent, "GET /users")
    /\ cw_pc' = "await_users"
    /\ UNCHANGED <<cw_selectedUser, cw_postData, cw_createdPost, cw_commentData,
                   cw_createdComment, cw_outcome, cw_responses, cw_finalPost,
                   genVars, pwVars, cfgVars, gsVars, mpVars, cxVars, esVars>>

\* a request of the workflow fails with a network error: the await raises
CwRequestFails ==
    /\ cw_pc \in {"await_users", "await_post", "await_comment", "await_final"}
    /\ CwEnds("threw")
    /\ UNCHANGED <<cw_selectedUser, cw_postData, cw_createdPost, cw_commentData,
                   cw_createdComment, cw_responses, cw_finalPost, genVars, pwVars, cfgVars, gsVars, mpVars, cxVars, esVars>>

\* the /users response arrives; Steps 1-2 up to await request.post('/posts')
CwUsersResponse ==
    /\ cw_pc = "await_users"
    /\ \E status \in Statuses, users \in UserLists, s \in Sentences, r \in Raws :
        LET selectedUser == IF Len(users) > 0 THEN users[1] ELSE Undefined
            postData == generatePost(selectedUser.v.id, s, r)
        IN  /\ cw_responses' = Append(cw_responses, status)
            /\ IF status # 200
               THEN /\ CwEnds("assert_failed")
                    /\ UNCHANGED <<cw_selectedUser, cw_postData>>
               ELSE IF selectedUser.t = "undefined"
               THEN /\ CwEnds("threw")
                    /\ cw_selectedUser' = selectedUser
                    /\ UNCHANGED cw_postData
               ELSE /\ cw_selectedUser' = selectedUser
                    /\ cw_postData' = postData
                    /\ CwSends("POST /posts", "await_post")
    /\ UNCHANGED <<cw_createdPost, cw_commentData, cw_createdComment,
                   cw_finalPost, genVars, pwVars, cfgVars, gsVars, mpVars, cxVars, esVars>>

CwPostResponseSoft ==
    /\ cw_pc = "await_post"
    /\ \E status \in Statuses, id \in ApiIds, echo \in BOOLEAN,
          s \in Sentences, r \in Raws :
        LET createdPost ==
                Obj([id |-> id,
                     title |-> IF echo THEN cw_postData.v.title ELSE Str("other"),
                     body |-> cw_postData.v.body,
                     userId |-> IF echo THEN cw_postData.v.userId ELSE Null])
            commentData == generateComment(createdPost.v.id, s, r)
        IN  /\ cw_responses' = Append(cw_responses, status)
            /\ cw_createdPost' = createdPost
            /\ cw_commentData' = commentData
            /\ CwSends("POST /comments", "await_comment")
    /\ UNCHANGED <<cw_selectedUser, cw_postData, cw_createdComment,
                   cw_finalPost, genVars, pwVars, cfgVars, gsVars, mpVars, cxVars, esVars>>

\* the POST /posts response arrives; Steps 2-4 up to
\* await request.post('/comments')
CwPostResponse ==
    /\ cw_pc = "await_post"
    /\ \E status \in Statuses, id \in ApiIds, echo \in BOOLEAN,
          s \in Sentences, r \in Raws :
        LET createdPost ==
                Obj([id |-> id,
                     title |-> IF echo THEN cw_postData.v.title ELSE Str("other"),
                     body |-> cw_postData.v.body,
                     userId |-> IF echo THEN cw_postData.v.userId ELSE Null])
            commentData == generateComment(createdPost.v.id, s, r)
        IN  /\ cw_responses' = Append(cw_responses, status)
            /\ IF status # 201
               THEN /\ CwEnds("assert_failed")
                    /\ UNCHANGED <<cw_createdPost, cw_commentData>>
               ELSE IF ~ ToBe(createdPost.v.userId, cw_selectedUser.v.id)
                       \/ ~ ToBe(createdPost.v.title, cw_postData.v.title)
               THEN /\ CwEnds("assert_failed")
                    /\ cw_createdPost' = createdPost
                    /\ UNCHANGED cw_commentData
               ELSE /\ cw_createdPost' = createdPost
                    /\ cw_commentData' = commentData
                    /\ CwSends("POST /comments", "await_comment")
    /\ UNCHANGED <<cw_selectedUser, cw_postData, cw_createdComment,
                   cw_finalPost, genVars, pwVars, cfgVars, gsVars, mpVars, cxVars, esVars>>

\* the POST /comments response arrives; Steps 4-6 up to
\* await request.get(`/posts/${createdPost.id}`)
CwCommentResponse ==
    /\ cw_pc = "await_comment"
    /\ \E status \in Statuses, id \in ApiIds, echo \in BOOLEAN, named \in BOOLEAN :
        LET createdComment ==
                Obj([id |-> id,
                     name |-> IF named THEN cw_commentData.v.name ELSE Undefined,
                     postId |-> IF echo THEN cw_commentData.v.postId ELSE Null])
        IN  /\ cw_responses' = Append(cw_responses, status)
            /\ IF status # 201
               THEN /\ CwEnds("assert_failed")
                    /\ UNCHANGED cw_createdComment
               ELSE IF ~ ToBe(createdComment.v.postId, cw_createdPost.v.id)
               THEN /\ CwEnds("assert_failed")
                    /\ cw_createdComment' = createdComment
               ELSE /\ cw_createdComment' = createdComment
                    /\ CwSends("GET /posts/id", "await_final")
    /\ UNCHANGED <<cw_selectedUser, cw_postData, cw_createdPost, cw_commentData,
                   cw_finalPost, genVars, pwVars, cfgVars, gsVars, mpVars, cxVars, esVars>>

CwFinalResponseStrict ==
    /\ cw_pc = "await_final"
    /\ \E status \in Statuses, id \in ApiIds :
        /\ cw_responses' = Append(cw_responses, status)
        /\ cw_finalPost' = IF status # 404 THEN Obj([id |-> id]) ELSE Undefined
        /\ IF ~ ToBe(id, cw_createdPost.v.id)
           THEN CwEnds("assert_failed")
           ELSE IF cw_createdComment.v.name.t # "string"
           THEN CwEnds("threw")
           ELSE CwEnds("passed")
    /\ UNCHANGED <<cw_selectedUser, cw_postData, cw_createdPost, cw_commentData,
                   cw_createdComment, genVars, pwVars, cfgVars, gsVars, mpVars, cxVars, esVars>>

\* the final GET response arrives; Step 6 and the closing console.log, which
\* reads createdComment.name.substring
CwFinalResponse ==
    /\ cw_pc = "await_final"
    /\ \E status \in Statuses, id \in ApiIds :
        /\ cw_responses' = Append(cw_responses, status)
        /\ cw_finalPost' = IF status # 404 THEN Obj([id |-> id]) ELSE Undefined
        /\ IF status # 404 /\ ~ ToBe(id, cw_createdPost.v.id)
           THEN CwEnds("assert_failed")
           ELSE IF cw_createdComment.v.name.t # "string"
           THEN CwEnds("threw")
           ELSE CwEnds("passed")
    /\ UNCHANGED <<cw_selectedUser, cw_postData, cw_createdPost, cw_commentData,
                   cw_createdComment, genVars, pwVars, cfgVars, gsVars, mpVars, cxVars, esVars>>

-----------------------------------------------------------------------------
(* 'Demonstrate performance workflow with parallel requests' *)

\* the GETs in the first Promise.all
NumFetches == 3

\* the iterations of the creation loop
NumCreates == 5

Unsent == [st |-> "unsent", status |-> 0]
Inflight == [st |-> "inflight", status |-> 0]
Rejected == [st |-> "rejected", status |-> 0]
Fulfilled(status) == [st |-> "fulfilled", status |-> status]

InitParallel ==
    /\ pw_pc = "start"
    /\ pw_fetch = [k \in 1..NumFetches |-> Unsent]
    /\ pw_create = [k \in 1..NumCreates |-> Unsent]
    /\ pw_i = 0
    /\ pw_asserted = 0
    /\ pw_outcome = "running"

PwEnds(how) ==
    /\ pw_pc' = "done"
    /\ pw_outcome' = how

AnyFulfilled(batch) == \E k \in DOMAIN batch : batch[k].st = "fulfilled"

\* Promise.all(batch) fulfils when every promise of the batch has fulfilled
AllFulfilled(batch) == \A k \in DOMAIN batch : batch[k].st = "fulfilled"

\* Promise.all(batch) rejects as soon as one promise of the batch rejects
SomeRejected(batch) == \E k \in DOMAIN batch : batch[k].st = "rejected"

\* the three request.get calls in the array literal, then await Promise.all
PwStartFetch ==
    /\ pw_pc = "start"
    /\ pw_fetch' = [k \in 1..NumFetches |-> Inflight]
    /\ pw_pc' = "join_fetch"
    /\ UNCHANGED <<pw_create, pw_i, pw_asserted, pw_outcome, genVars, cwVars, cfgVars, gsVars, mpVars, cxVars, esVars>>

\* the API answers one GET, or the request fails; nothing cancels a request
PwFetchSettles ==
    \E k \in 1..NumFetches :
        /\ pw_fetch[k].st = "inflight"
        /\ \/ \E status \in Statuses : pw_fetch' = [pw_fetch EXCEPT ![k] = Fulfilled(status)]
           \/ pw_fetch' = [pw_fetch EXCEPT ![k] = Rejected]
        /\ UNCHANGED <<pw_pc, pw_create, pw_i, pw_asserted, pw_outcome, genVars, cwVars, cfgVars, gsVars, mpVars, cxVars, esVars>>

\* the first await raises: one of the GETs failed
PwFetchJoinRejects ==
    /\ pw_pc = "join_fetch"
    /\ SomeRejected(pw_fetch)
    /\ PwEnds("threw")
    /\ UNCHANGED <<pw_fetch, pw_create, pw_i, pw_asserted, genVars, cwVars, cfgVars, gsVars, mpVars, cxVars, esVars>>

\* the first await returns: the three status checks and the three json() calls
PwFetchJoined ==
    /\ pw_pc = "join_fetch"
    /\ ~ SomeRejected(pw_fetch)
    /\ AllFulfilled(pw_fetch)
    /\ \E parsed \in BOOLEAN :
        IF \E k \in 1..NumFetches : pw_fetch[k].status # 200
        THEN PwEnds("assert_failed")
        ELSE IF ~ parsed
        THEN PwEnds("threw")
        ELSE pw_pc' = "create" /\ UNCHANGED pw_outcome
    /\ UNCHANGED <<pw_fetch, pw_create, pw_i, pw_asserted, genVars, cwVars, cfgVars, gsVars, mpVars, cxVars, esVars>>

\* one iteration of the creation loop: generatePost(), request.post(..) and
\* push; postData is local to the iteration
PwCreateIssued ==
    /\ pw_pc = "create"
    /\ pw_i < NumCreates
    /\ pw_create' = [pw_create EXCEPT ![pw_i + 1] = Inflight]
    /\ pw_i' = pw_i + 1
    /\ UNCHANGED <<pw_pc, pw_fetch, pw_asserted, pw_outcome, genVars, cwVars, cfgVars, gsVars, mpVars, cxVars, esVars>>

\* the loop ends: await Promise.all(postCreationPromises)
PwAwaitCreates ==
    /\ pw_pc = "create"
    /\ pw_i >= NumCreates
    /\ pw_pc' = "join_create"
    /\ UNCHANGED <<pw_fetch, pw_create, pw_i, pw_asserted, pw_outcome, genVars, cwVars, cfgVars, gsVars, mpVars, cxVars, esVars>>

\* the API answers one POST, or the request fails
PwCreateSettles ==
    \E k \in 1..NumCreates :
        /\ pw_create[k].st = "inflight"
        /\ \/ \E status \in Statuses : pw_create' = [pw_create EXCEPT ![k] = Fulfilled(status)]
           \/ pw_create' = [pw_create EXCEPT ![k] = Rejected]
        /\ UNCHANGED <<pw_pc, pw_fetch, pw_i, pw_asserted, pw_outcome, genVars, cwVars, cfgVars, gsVars, mpVars, cxVars, esVars>>

PwCreateJoinSwallows ==
    /\ pw_pc = "join_create"
    /\ SomeRejected(pw_create)
    /\ \A k \in 1..NumCreates : pw_create[k].st # "inflight"
    /\ pw_pc' = "assert"
    /\ UNCHANGED <<pw_fetch, pw_create, pw_i, pw_asserted, pw_outcome, genVars, cwVars, cfgVars, gsVars, mpVars, cxVars, esVars>>

\* the second await raises: one of the POSTs failed
PwCreateJoinRejects ==
    /\ pw_pc = "join_create"
    /\ SomeRejected(pw_create)
    /\ PwEnds("threw")
    /\ UNCHANGED <<pw_fetch, pw_create, pw_i, pw_asserted, genVars, cwVars, cfgVars, gsVars, mpVars, cxVars, esVars>>

\* the second await returns the array of responses
PwCreateJoined ==
    /\ pw_pc = "join_create"
    /\ ~ SomeRejected(pw_create)
    /\ AllFulfilled(pw_create)
    /\ pw_pc' = "assert"
    /\ UNCHANGED <<pw_fetch, pw_create, pw_i, pw_asserted, pw_outcome, genVars, cwVars, cfgVars, gsVars, mpVars, cxVars, esVars>>

\* forEach: expect(response.status()).toBe(201) on the next response; after
\* the last one the test logs its summary and passes
PwAssertNext ==
    /\ pw_pc = "assert"
    /\ IF pw_create[pw_asserted + 1].status # 201
       THEN PwEnds("assert_failed") /\ UNCHANGED pw_asserted
       ELSE /\ pw_asserted' = pw_asserted + 1
            /\ IF pw_asserted + 1 = NumCreates
               THEN PwEnds("passed")
               ELSE UNCHANGED <<pw_pc, pw_outcome>>
    /\ UNCHANGED <<pw_fetch, pw_create, pw_i, genVars, cwVars, cfgVars, gsVars, mpVars, cxVars, esVars>>

-----------------------------------------------------------------------------
(* The runner's configuration: playwright.config.js and its other version *)

DefaultBaseURL == Str("https://jsonplaceholder.typicode.com")

ConfigFiles == {"playwright.config.js", "unnamed/part_000"}

\* the environments the runner is started in
Environments ==
    [API_BASE_URL : {Undefined, Str(""), Str("http://localhost:3000"),
                     Str("https://staging.example.com")},
     CI : {Undefined, Str(""), Str("true")}]

\* what both files compute from process.env.CI
CiSettings(env) ==
    [forbidOnly |-> Truthy(env.CI),
     retries |-> IF Truthy(env.CI) THEN Num(2) ELSE Num(0),
     workers |-> IF Truthy(env.CI) THEN Num(1) ELSE Undefined]

\* a project's use.baseURL, when it has one, replaces the shared use.baseURL
ResolvedBaseURL(shared, project) ==
    IF project.t = "undefined" THEN shared ELSE project

\* playwright.config.js: use.baseURL and projects[0].use.baseURL are literals
playwrightConfig(env) ==
    [baseURL |-> ResolvedBaseURL(DefaultBaseURL, DefaultBaseURL),
     ci |-> CiSettings(env)]

\* the other version: process.env.API_BASE_URL || '<default>', no project
\* baseURL
otherConfig(env) ==
    [baseURL |-> ResolvedBaseURL(Or(env.API_BASE_URL, DefaultBaseURL), Undefined),
     ci |-> CiSettings(env)]

InitConfig ==
    /\ cfg_file = "none"
    /\ cfg_env = [API_BASE_URL |-> Undefined, CI |-> Undefined]
    /\ cfg = [baseURL |-> Undefined, ci |-> CiSettings([CI |-> Undefined])]

\* the runner evaluates one of the configuration files
LoadConfig ==
    /\ cfg_file = "none"
    /\ \E file \in ConfigFiles, env \in Environments :
        /\ cfg_file' = file
        /\ cfg_env' = env
        /\ cfg' = IF file = "playwright.config.js"
                  THEN playwrightConfig(env) ELSE otherConfig(env)
    /\ UNCHANGED <<genVars, cwVars, pwVars, gsVars, mpVars, cxVars, esVars>>

-----------------------------------------------------------------------------
(* utils/global-setup.js *)

\* const endpoints = [..]
endpoints == <<"/users", "/posts", "/comments">>

ConnectivityUrl == "/posts/1"

InitSetup ==
    /\ gs_pc = "idle"
    /\ gs_k = 0
    /\ gs_inflight = {}
    /\ gs_fetched = <<>>
    /\ gs_log = <<>>
    /\ gs_outcome = "running"

\* fetch(url): the call is made
GsFetches(url) ==
    /\ gs_inflight' = {url}
    /\ gs_fetched' = Append(gs_fetched, url)

\* the function runs to its end: 'Demo environment ready' and the command list
GsReturns(lines) ==
    /\ gs_log' = gs_log \o lines \o <<"ready">>
    /\ gs_pc' = "done"
    /\ gs_outcome' = "returned"
    /\ gs_inflight' = {}
    /\ UNCHANGED <<gs_k, gs_fetched>>

\* an exception leaves the function
GsThrows ==
    /\ gs_pc' = "done"
    /\ gs_outcome' = "threw"
    /\ gs_inflight' = {}
    /\ UNCHANGED <<gs_k, gs_fetched, gs_log>>

\* globalSetup(config) is called: the banner, then the connectivity fetch
GsStart ==
    /\ cfg_file # "none"
    /\ gs_pc = "idle"
    /\ gs_log' = gs_log \o <<"banner", "testing connectivity">>
    /\ GsFetches(ConnectivityUrl)
    /\ gs_pc' = "connectivity"
    /\ UNCHANGED <<gs_k, gs_outcome, genVars, cwVars, pwVars, cfgVars, mpVars, cxVars, esVars>>

\* the connectivity fetch settles: response.ok, another status, or the fetch
\* is rejected and the first catch logs it; then the first endpoint is fetched
GsConnectivityAnswer ==
    /\ gs_pc = "connectivity"
    /\ \E line \in {"accessible", "warn status", "error connectivity"} :
        gs_log' = gs_log \o <<line, "verifying">>
    /\ GsFetches(endpoints[1])
    /\ gs_k' = 1
    /\ gs_pc' = "verify"
    /\ UNCHANGED <<gs_outcome, genVars, cwVars, pwVars, cfgVars, mpVars, cxVars, esVars>>

GsEndpointAnswerUncaught ==
    /\ gs_pc = "verify"
    /\ \/ GsThrows
       \/ /\ gs_pc' = "parse"
          /\ UNCHANGED <<gs_k, gs_inflight, gs_fetched, gs_log, gs_outcome>>
    /\ UNCHANGED <<genVars, cwVars, pwVars, cfgVars, mpVars, cxVars, esVars>>

\* the fetch of endpoint k settles: rejected, and the second catch logs one
\* warning and the loop is left; or answered (any status), and the body is
\* read with await response.json()
GsEndpointAnswer ==
    /\ gs_pc = "verify"
    /\ \/ GsReturns(<<"warn verify">>)
       \/ /\ gs_pc' = "parse"
          /\ UNCHANGED <<gs_k, gs_inflight, gs_fetched, gs_log, gs_outcome>>
    /\ UNCHANGED <<genVars, cwVars, pwVars, cfgVars, mpVars, cxVars, esVars>>

GsEndpointParsedContinue ==
    /\ gs_pc = "parse"
    /\ \E parsed \in BOOLEAN :
        LET line == IF parsed THEN "records" ELSE "warn verify" IN
        IF gs_k < Len(endpoints)
        THEN /\ gs_log' = Append(gs_log, line)
             /\ GsFetches(endpoints[gs_k + 1])
             /\ gs_k' = gs_k + 1
             /\ gs_pc' = "verify"
             /\ UNCHANGED gs_outcome
        ELSE GsReturns(<<line>>)
    /\ UNCHANGED <<genVars, cwVars, pwVars, cfgVars, mpVars, cxVars, esVars>>

\* response.json() settles: the body is not JSON, and the second catch logs
\* one warning and the loop is left; or it is, the record count is logged and
\* the loop goes on to the next endpoint, if any
GsEndpointParsed ==
    /\ gs_pc = "parse"
    /\ \E parsed \in BOOLEAN :
        IF ~ parsed
        THEN GsReturns(<<"warn verify">>)
        ELSE IF gs_k < Len(endpoints)
        THEN /\ gs_log' = Append(gs_log, "records")
             /\ GsFetches(endpoints[gs_k + 1])
             /\ gs_k' = gs_k + 1
             /\ gs_pc' = "verify"
             /\ UNCHANGED gs_outcome
        ELSE GsReturns(<<"records">>)
    /\ UNCHANGED <<genVars, cwVars, pwVars, cfgVars, mpVars, cxVars, esVars>>

-----------------------------------------------------------------------------
(* 'create multiple posts with unique dynamic data' *)

postsToCreate == 3

InitMultiple ==
    /\ mp_pc = "start"
    /\ mp_postData = Undefined
    /\ mp_titles = <<>>
    /\ mp_createdPosts = <<>>
    /\ mp_sent = <<>>
    /\ mp_responses = <<>>
    /\ mp_outcome = "running"

\* [...new Set(titles)].length
UniqueCount(titles) == Cardinality({titles[i] : i \in DOMAIN titles})

MpEnds(how) ==
    /\ mp_pc' = "done"
    /\ mp_outcome' = how
    /\ UNCHANGED <<mp_postData, mp_titles, mp_sent>>

MpIteratesUnawaited(s, r) ==
    /\ mp_postData' = generatePost(Undefined, s, r)
    /\ mp_titles' = mp_titles \o <<s, s>>
    /\ mp_sent' = mp_sent \o <<"POST /posts", "POST /posts">>
    /\ mp_pc' = "await_post"
    /\ UNCHANGED mp_outcome

\* one iteration up to its await: generatePost() and request.post('/posts')
MpIterates(s, r) ==
    /\ mp_postData' = generatePost(Undefined, s, r)
    /\ mp_titles' = Append(mp_titles, s)
    /\ mp_sent' = Append(mp_sent, "POST /posts")
    /\ mp_pc' = "await_post"
    /\ UNCHANGED mp_outcome

\* the loop is entered
MpFirstPost ==
    /\ mp_pc = "start"
    /\ \E s \in Sentences, r \in Raws : MpIterates(s, r)
    /\ UNCHANGED <<mp_createdPosts, mp_responses, genVars, cwVars, pwVars,
                   cfgVars, gsVars, cxVars, esVars>>

\* the request fails with a network error: the await raises
MpRequestFails ==
    /\ mp_pc = "await_post"
    /\ MpEnds("threw")
    /\ UNCHANGED <<mp_createdPosts, mp_responses, genVars, cwVars, pwVars,
                   cfgVars, gsVars, cxVars, esVars>>

\* the POST /posts response arrives: expect 201, push the created post (of
\* which the script later reads the title), then the next iteration, or after
\* the last one the checks of createdPosts and of the unique titles
MpPostResponse ==
    /\ mp_pc = "await_post"
    /\ \E status \in Statuses, echo \in BOOLEAN :
        LET createdPost ==
                Obj([title |-> IF echo THEN mp_postData.v.title ELSE Str("other")])
            createdPosts == Append(mp_createdPosts, createdPost)
            titles == [i \in DOMAIN createdPosts |-> createdPosts[i].v.title]
        IN  /\ mp_responses' = Append(mp_responses, status)
            /\ IF status # 201
               THEN /\ MpEnds("assert_failed")
                    /\ UNCHANGED mp_createdPosts
               ELSE /\ mp_createdPosts' = createdPosts
                    /\ IF Len(createdPosts) < postsToCreate
                       THEN \E s \in Sentences, r \in Raws : MpIterates(s, r)
                       ELSE IF UniqueCount(titles) = postsToCreate
                       THEN MpEnds("passed")
                       ELSE MpEnds("assert_failed")
    /\ UNCHANGED <<genVars, cwVars, pwVars, cfgVars, gsVars, cxVars, esVars>>

-----------------------------------------------------------------------------
(* 'Demonstrate complex workflow with validation' *)

\* the longest user list GET /users returns to this script
MaxListed == 4

\* the bodies GET /users returns to this script: users with distinct ids
ListedUsers == {[i \in 1..n |-> ApiUser(i)] : n \in 0..MaxListed}

\* the ids the API assigns to the posts of this script
AssignedIds == {Num(0), Num(101)}

\* allUsers.slice(0, 3)
SelectedUsers == 3
Slice(arr, end) == [i \in 1..(IF Len(arr) < end THEN Len(arr) ELSE end) |-> arr[i]]

PostsPerUser == 2

\* a == b, for the values the API returns as ids
LooseEquals(a, b) ==
    \/ a.t = b.t /\ a.v = b.v
    \/ a.t \in {"null", "undefined"} /\ b.t \in {"null", "undefined"}

InitComplex ==
    /\ cx_pc = "start"
    /\ cx_users = <<>>
    /\ cx_posts = <<>>
    /\ cx_comments = <<>>
    /\ cx_relationships = <<>>
    /\ cx_commentData = Undefined
    /\ cx_seed = 0
    /\ cx_sent = <<>>
    /\ cx_outcome = "running"

\* Phase 4: the four expectations, on the results as they will be
Validated(users, posts, comments, relationships) ==
    /\ Len(posts) = Len(users) * PostsPerUser
    /\ Len(comments) = Len(posts)
    /\ \A userId \in DOMAIN relationships :
        /\ Len(relationships[userId]) = 2
        /\ \A k \in DOMAIN relationships[userId] :
            \E c \in DOMAIN comments :
                LooseEquals(comments[c].v.postId, relationships[userId][k])

CxEnds(how) ==
    /\ cx_pc' = "done"
    /\ cx_outcome' = how
    /\ UNCHANGED cx_sent

\* Phase 4 runs and the test is over
CxValidates(users, posts, comments, relationships) ==
    /\ cx_pc' = "validated"
    /\ cx_outcome' = IF Validated(users, posts, comments, relationships)
                     THEN "passed" ELSE "assert_failed"
    /\ UNCHANGED cx_sent

CxSends(req, at) ==
    /\ cx_sent' = Append(cx_sent, req)
    /\ cx_pc' = at
    /\ UNCHANGED cx_outcome

\* Phase 1: await request.get('/users')
CxGetUsers ==
    /\ cx_pc = "start"
    /\ CxSends("GET /users", "await_users")
    /\ UNCHANGED <<cx_users, cx_posts, cx_comments, cx_relationships,
                   cx_commentData, cx_seed, genVars, cwVars, pwVars, cfgVars,
                   gsVars, mpVars, esVars>>

\* a request of the workflow fails with a network error: the await raises
CxRequestFails ==
    /\ cx_pc \in {"await_users", "await_post", "await_comment"}
    /\ CxEnds("threw")
    /\ UNCHANGED <<cx_users, cx_posts, cx_comments, cx_relationships,
                   cx_commentData, cx_seed, genVars, cwVars, pwVars, cfgVars,
                   gsVars, mpVars, esVars>>

\* the /users response arrives (its status is not looked at): the first 3
\* users are kept and the first post of the first user is sent; without
\* users Phases 2 and 3 are empty and Phase 4 runs at once
CxUsersResponse ==
    /\ cx_pc = "await_users"
    /\ \E allUsers \in ListedUsers :
        LET users == Slice(allUsers, SelectedUsers) IN
        /\ cx_users' = users
        /\ IF Len(users) = 0
           THEN CxValidates(users, cx_posts, cx_comments, cx_relationships)
           ELSE CxSends("POST /posts", "await_post")
    /\ UNCHANGED <<cx_posts, cx_comments, cx_relationships, cx_commentData,
                   cx_seed, genVars, cwVars, pwVars, cfgVars, gsVars, mpVars,
                   esVars>>

\* a POST /posts response arrives: expect 201, record the post under its
\* user, then the next post, or after the last one the first comment of
\* Phase 3 (the posts carry user.id: it is generatePost(user.id) that is sent)
CxPostResponse ==
    /\ cx_pc = "await_post"
    /\ \E status \in Statuses, id \in AssignedIds :
        LET user == cx_users[(Len(cx_posts) \div PostsPerUser) + 1]
            key == user.v.id
            posts == Append(cx_posts, Obj([id |-> id]))
            relationships ==
                IF key \in DOMAIN cx_relationships
                THEN [cx_relationships EXCEPT ![key] = Append(@, id)]
                ELSE cx_relationships @@ (key :> <<id>>)
        IN  IF status # 201
            THEN /\ CxEnds("assert_failed")
                 /\ UNCHANGED <<cx_posts, cx_relationships, cx_commentData, cx_seed>>
            ELSE /\ cx_posts' = posts
                 /\ cx_relationships' = relationships
                 /\ IF Len(posts) < Len(cx_users) * PostsPerUser
                    THEN /\ CxSends("POST /posts", "await_post")
                         /\ UNCHANGED <<cx_commentData, cx_seed>>
                    ELSE \E seed \in Raws :
                         /\ cx_seed' = seed
                         /\ cx_commentData' =
                                generateComment(posts[1].v.id, SentenceAt(seed, 0),
                                                RawAt(seed, 1))
                         /\ CxSends("POST /comments", "await_comment")
    /\ UNCHANGED <<cx_users, cx_comments, genVars, cwVars, pwVars, cfgVars,
                   gsVars, mpVars, esVars>>

\* a POST /comments response arrives, the created comment being the one
\* sent: expect 201, record it, then the comment of the next post, or after
\* the last one Phase 4
CxCommentResponse ==
    /\ cx_pc = "await_comment"
    /\ \E status \in Statuses :
        LET newComment == Obj([postId |-> cx_commentData.v.postId])
            comments == Append(cx_comments, newComment)
            n == Len(comments)
        IN  IF status # 201
            THEN /\ CxEnds("assert_failed")
                 /\ UNCHANGED <<cx_comments, cx_commentData>>
            ELSE /\ cx_comments' = comments
                 /\ IF n < Len(cx_posts)
                    THEN /\ cx_commentData' =
                                generateComment(cx_posts[n + 1].v.id,
                                                SentenceAt(cx_seed, 2 * n),
                                                RawAt(cx_seed, 2 * n + 1))
                         /\ CxSends("POST /comments", "await_comment")
                    ELSE /\ CxValidates(cx_users, cx_posts, comments,
                                        cx_relationships)
                         /\ UNCHANGED cx_commentData
    /\ UNCHANGED <<cx_users, cx_posts, cx_relationships, cx_seed, genVars,
                   cwVars, pwVars, cfgVars, gsVars, mpVars, esVars>>

-----------------------------------------------------------------------------
(* 'Handle error scenarios and implement fallback strategies' *)

InitErrors ==
    /\ es_pc = "start"
    /\ es_users = Undefined
    /\ es_userToUse = Undefined
    /\ es_fallbackPostData = Undefined
    /\ es_caught = FALSE
    /\ es_sent = <<>>
    /\ es_responses = <<>>
    /\ es_outcome = "running"

EsEnds(how) ==
    /\ es_pc' = "done"
    /\ es_outcome' = how
    /\ UNCHANGED es_sent

EsSends(req, at) ==
    /\ es_sent' = Append(es_sent, req)
    /\ es_pc' = at
    /\ UNCHANGED es_outcome

\* Scenario 1: generatePost(9999) is posted
EsFirstPost ==
    /\ es_pc = "start"
    /\ EsSends("POST /posts", "await_post")
    /\ UNCHANGED <<es_users, es_userToUse, es_fallbackPostData, es_caught,
                   es_responses, genVars, cwVars, pwVars, cfgVars, gsVars,
                   mpVars, cxVars>>

\* a request outside the try block fails with a network error
EsRequestFails ==
    /\ es_pc \in {"await_post", "await_missing", "await_fallback"}
    /\ EsEnds("threw")
    /\ UNCHANGED <<es_users, es_userToUse, es_fallbackPostData, es_caught,
                   es_responses, genVars, cwVars, pwVars, cfgVars, gsVars,
                   mpVars, cxVars>>

\* the first response arrives: expect 201, then Scenario 2 asks for
\* /posts/9999
EsPostResponse ==
    /\ es_pc = "await_post"
    /\ \E status \in Statuses :
        /\ es_responses' = Append(es_responses, status)
        /\ IF status # 201
           THEN EsEnds("assert_failed")
           ELSE EsSends("GET /posts/9999", "await_missing")
    /\ UNCHANGED <<es_users, es_userToUse, es_fallbackPostData, es_caught,
                   genVars, cwVars, pwVars, cfgVars, gsVars, mpVars, cxVars>>

\* the second response arrives: expect 404, then Scenario 3 enters its try
\* block and asks for /users/999
EsMissingResponse ==
    /\ es_pc = "await_missing"
    /\ \E status \in Statuses :
        /\ es_responses' = Append(es_responses, status)
        /\ IF status # 404
           THEN EsEnds("assert_failed")
           ELSE EsSends("GET /users/999", "await_specific")
    /\ UNCHANGED <<es_users, es_userToUse, es_fallbackPostData, es_caught,
                   genVars, cwVars, pwVars, cfgVars, gsVars, mpVars, cxVars>>

\* a request inside the try block fails: the catch logs it, userToUse stays
\* undefined and the test is over
EsRecoveryRequestFails ==
    /\ es_pc \in {"await_specific", "await_users"}
    /\ es_caught' = TRUE
    /\ EsEnds("passed")
    /\ UNCHANGED <<es_users, es_userToUse, es_fallbackPostData, es_responses,
                   genVars, cwVars, pwVars, cfgVars, gsVars, mpVars, cxVars>>

\* the /users/999 response arrives: on 404 the fallback asks for /users;
\* otherwise userToUse stays undefined and the test is over
EsSpecificResponse ==
    /\ es_pc = "await_specific"
    /\ \E status \in Statuses :
        /\ es_responses' = Append(es_responses, status)
        /\ IF status = 404
           THEN EsSends("GET /users", "await_users")
           ELSE EsEnds("passed")
    /\ UNCHANGED <<es_users, es_userToUse, es_fallbackPostData, es_caught,
                   genVars, cwVars, pwVars, cfgVars, gsVars, mpVars, cxVars>>

\* the /users response arrives (its status is not looked at): userToUse =
\* users[0]; of an empty list that is undefined, userToUse.name raises, the
\* catch logs it and the test is over; otherwise the try block is left and
\* generatePost(userToUse.id) is posted
EsUsersResponse ==
    /\ es_pc = "await_users"
    /\ \E status \in Statuses, users \in UserLists, s \in Sentences, r \in Raws :
        LET userToUse == IF Len(users) > 0 THEN users[1] ELSE Undefined
        IN  /\ es_responses' = Append(es_responses, status)
            /\ es_users' = Arr(users)
            /\ es_userToUse' = userToUse
            /\ IF userToUse.t = "undefined"
               THEN /\ es_caught' = TRUE
                    /\ EsEnds("passed")
                    /\ UNCHANGED es_fallbackPostData
               ELSE /\ es_fallbackPostData' = generatePost(userToUse.v.id, s, r)
                    /\ EsSends("POST /posts", "await_fallback")
                    /\ UNCHANGED es_caught
    /\ UNCHANGED <<genVars, cwVars, pwVars, cfgVars, gsVars, mpVars, cxVars>>

\* the fallback response arrives: expect 201
EsFallbackResponse ==
    /\ es_pc = "await_fallback"
    /\ \E status \in Statuses :
        /\ es_responses' = Append(es_responses, status)
        /\ EsEnds(IF status = 201 THEN "passed" ELSE "assert_failed")
    /\ UNCHANGED <<es_users, es_userToUse, es_fallbackPostData, es_caught,
                   genVars, cwVars, pwVars, cfgVars, gsVars, mpVars, cxVars>>

-----------------------------------------------------------------------------
(* Specifications *)

Init == InitGen /\ InitComplete /\ InitParallel /\ InitConfig /\ InitSetup
        /\ InitMultiple /\ InitComplex /\ InitErrors

NextGen ==
    \/ CallGenerateUser
    \/ CallGeneratePost
    \/ CallGenerateComment
    \/ CallGenerateTodo
    \/ CallGenerateTestScenarios
    \/ CallGenerateApiTestData
    \/ Discard

\* calls of the value generators and of the endpoint tables
SpecGen == Init /\ [][NextGen]_vars

NextEdge ==
    \/ CallGenerateUser
    \/ CallGenerateEdgeCases
    \/ CallerMutates
    \/ Discard

\* calls of generateEdgeCases, among other generator calls, by callers that
\* keep and change the results
SpecEdge == Init /\ [][NextEdge]_vars

NextComplete ==
    \/ CwGetUsers
    \/ CwRequestFails
    \/ CwUsersResponse
    \/ CwPostResponse
    \/ CwCommentResponse
    \/ CwFinalResponse

\* one run of the complete user-post-comment workflow
SpecComplete == Init /\ [][NextComplete]_vars

NextParallel ==
    \/ PwStartFetch
    \/ PwFetchSettles
    \/ PwFetchJoinRejects
    \/ PwFetchJoined
    \/ PwCreateIssued
    \/ PwAwaitCreates
    \/ PwCreateSettles
    \/ PwCreateJoinRejects
    \/ PwCreateJoined
    \/ PwAssertNext

\* one run of the parallel-requests workflow
SpecParallel == Init /\ [][NextParallel]_vars

NextSetup ==
    \/ LoadConfig
    \/ GsStart
    \/ GsConnectivityAnswer
    \/ GsEndpointAnswer
    \/ GsEndpointParsed

\* the runner loads its configuration and runs globalSetup(config)
SpecSetup == Init /\ [][NextSetup]_vars

NextMultiple ==
    \/ MpFirstPost
    \/ MpRequestFails
    \/ MpPostResponse

\* one run of the multiple-posts test
SpecMultiple == Init /\ [][NextMultiple]_vars

NextComplex ==
    \/ CxGetUsers
    \/ CxRequestFails
    \/ CxUsersResponse
    \/ CxPostResponse
    \/ CxCommentResponse

\* one run of the complex workflow
SpecComplex == Init /\ [][NextComplex]_vars

NextErrors ==
    \/ EsFirstPost
    \/ EsRequestFails
    \/ EsPostResponse
    \/ EsMissingResponse
    \/ EsRecoveryRequestFails
    \/ EsSpecificResponse
    \/ EsUsersResponse
    \/ EsFallbackResponse

\* one run of the error-scenarios test
SpecErrors == Init /\ [][NextErrors]_vars

\* the tests of posts.spec.js share no state: a behaviour follows one of them
NextScripts ==
    \/ (mp_pc = "start" /\ cx_pc = "start" /\ es_pc = "start" /\ pw_pc = "start"
        /\ NextComplete)
    \/ (cw_pc = "start" /\ cx_pc = "start" /\ es_pc = "start" /\ pw_pc = "start"
        /\ NextMultiple)
    \/ (cw_pc = "start" /\ mp_pc = "start" /\ es_pc = "start" /\ pw_pc = "start"
        /\ NextComplex)
    \/ (cw_pc = "start" /\ mp_pc = "start" /\ cx_pc = "start" /\ pw_pc = "start"
        /\ NextErrors)
    \/ (cw_pc = "start" /\ mp_pc = "start" /\ cx_pc = "start" /\ es_pc = "start"
        /\ NextParallel)

\* one run of one of the workflow tests
SpecScripts == Init /\ [][NextScripts]_vars

-----------------------------------------------------------------------------
(* Properties of the generator *)

\* element-wise equality of two arrays of primitive values
SameArray(a, b) ==
    /\ a.t = "array" /\ b.t = "array"
    /\ Len(a.v) = Len(b.v)
    /\ \A i \in 1..Len(a.v) : a.v[i].t = b.v[i].t /\ a.v[i].v = b.v[i].v

NoIdSupplied == arg.t \in {"undefined", "null"}

\* C1: a generatePost or generateTodo call without a userId (omitted,
\* undefined or null) returns an integer userId in [1,10], whatever the
\* random source yields.
C1_DefaultUserIdInRange ==
    (fn \in {"generatePost", "generateTodo"} /\ NoIdSupplied)
        => (IsInt(ret.v.userId) /\ IntOf(ret.v.userId) \in 1..10)

C1_Witness ==
    /\ fn = "generateTodo"
    /\ arg = Null
    /\ IsInt(ret.v.userId) /\ IntOf(ret.v.userId) = 10

\* C2: a generateComment call without a postId (omitted, undefined or null)
\* returns an integer postId in [1,100], whatever the random source yields.
C2_DefaultPostIdInRange ==
    (fn = "generateComment" /\ NoIdSupplied)
        => (IsInt(ret.v.postId) /\ IntOf(ret.v.postId) \in 1..100)

C2_Witness ==
    /\ fn = "generateComment"
    /\ arg = Undefined
    /\ IsInt(ret.v.postId) /\ IntOf(ret.v.postId) = 100

\* C3: every integer userId a caller supplies to generatePost (0, negative
\* and out-of-range values included) is the userId of the returned post.
C3_SuppliedUserIdKept ==
    (fn = "generatePost" /\ IsInt(arg)) => ret.v.userId = arg

\* C5: generateEdgeCases returns the empty sequence for every key other than
\* the four recognized kinds, inherited property names included.
C5_UnknownKindEmpty ==
    (fn = "generateEdgeCases" /\ arg.v \notin EdgeKinds) => IsEmptyArray(ret)

\* C6: for each recognized kind, generateEdgeCases returns a non-empty
\* sequence, and every call returns what the first call with that kind
\* returned, whatever callers did to earlier results in between.
C6_EdgeCasesFixed ==
    (fn = "generateEdgeCases" /\ arg.v \in EdgeKinds)
        => (/\ ret.t = "array"
            /\ Len(ret.v) > 0
            /\ SameArray(ret, seen[arg.v]))

\* a call for 'email' returned after the caller emptied the array that the
\* first call for 'email' had handed out
C6_Witness ==
    /\ fn = "generateEdgeCases"
    /\ arg = Str("email")
    /\ IsEmptyArray(live["email"])
    /\ Len(ret.v) = 4

\* C7: generateEdgeCases('email') starts with '', 'invalid-email',
\* '@domain.com', in this order.
C7_EmailStartsWithEmpty ==
    (fn = "generateEdgeCases" /\ arg.v = "email")
        => (/\ ret.t = "array"
            /\ Len(ret.v) >= 3
            /\ ret.v[1] = Str("")
            /\ ret.v[2] = Str("invalid-email")
            /\ ret.v[3] = Str("@domain.com"))

\* C8: generateApiTestData raises no error and returns the empty object for
\* every endpoint string other than the four known paths, for every method.
C8_UnknownEndpointEmptyObject ==
    (fn = "generateApiTestData" /\ arg.v \notin Endpoints)
        => (~threw /\ IsEmptyObject(ret))

\* C9: generateTestScenarios returns the empty sequence for every endpoint
\* other than '/posts', '/users', '/comments', and a non-empty scenario
\* sequence for each of these three.
C9_ScenariosKnownOrEmpty ==
    fn = "generateTestScenarios"
        => IF arg.v \in {"/posts", "/users", "/comments"}
           THEN ret.t = "array" /\ Len(ret.v) > 0
           ELSE IsEmptyArray(ret)


-----------------------------------------------------------------------------
(* Properties of the workflows *)

\* C4: the comment generated for the id P that the API assigned to the created
\* post has postId equal to P, for every integer P.
C4_ChainedCommentPostId ==
    cw_commentData.t = "object"
        => ToBe(cw_commentData.v.postId, cw_createdPost.v.id)

\* C10: in the parallel workflow the script awaits the creation batch only
\* after all 5 requests were issued, checks no status before all 5 requests
\* have completed, and then checks the 5 responses in order: it passes only
\* after checking that each of the 5 has status 201, and it stops early only
\* at a response whose status is not 201.
C10_ParallelCreateJoin ==
    /\ pw_pc = "join_create"
        => \A k \in 1..NumCreates : pw_create[k].st # "unsent"
    /\ (pw_pc = "assert" \/ pw_asserted > 0)
        => \A k \in 1..NumCreates : pw_create[k].st = "fulfilled"
    /\ \A k \in 1..NumCreates : k <= pw_asserted => pw_create[k].status = 201
    /\ pw_outcome = "passed"
        => (pw_asserted = NumCreates
            /\ \A k \in 1..NumCreates : pw_create[k] = Fulfilled(201))
    /\ (pw_outcome = "assert_failed" /\ pw_i = NumCreates)
        => (pw_asserted < NumCreates
            /\ pw_create[pw_asserted + 1].status # 201)

C10_Witness ==
    /\ pw_outcome = "passed"
    /\ pw_asserted = NumCreates


\* a request of the batch failed with a network error
FetchFailed == \E k \in 1..NumFetches : pw_fetch[k].st = "rejected"
CreateFailed == \E k \in 1..NumCreates : pw_create[k].st = "rejected"

\* each request of a batch is as it was, was just sent, or just settled
OnlyAdvances(old, new) ==
    \A k \in DOMAIN old :
        \/ new[k] = old[k]
        \/ (old[k].st = "unsent" /\ new[k].st = "inflight")
        \/ (old[k].st = "inflight" /\ new[k].st \in {"fulfilled", "rejected"})

\* C11: when a request of a batch (the 3 GETs, the 5 POSTs) fails with a
\* network error, the script checks no response of that batch and does not go
\* on: the test can only end by the raised error, also when other requests of
\* the batch completed; and the script never cancels or re-sends a request (a
\* request in flight stays in flight or settles, a settled one stays as it is).
C11_JoinAllOrFail ==
    /\ [](FetchFailed
            => (/\ pw_pc \in {"join_fetch", "done"}
                /\ pw_outcome \in {"running", "threw"}
                /\ (pw_pc = "done" => pw_outcome = "threw")
                /\ pw_i = 0))
    /\ [](CreateFailed
            => (/\ pw_pc \in {"create", "join_create", "done"}
                /\ pw_asserted = 0
                /\ pw_outcome \in {"running", "threw"}
                /\ (pw_pc = "done" => pw_outcome = "threw")))
    /\ [][OnlyAdvances(pw_fetch, pw_fetch')
           /\ OnlyAdvances(pw_create, pw_create')]_vars

\* the test ended by the error of one POST although another POST had been
\* answered with 201
C11_Witness ==
    /\ pw_pc = "done"
    /\ pw_outcome = "threw"
    /\ CreateFailed
    /\ \E k \in 1..NumCreates : pw_create[k] = Fulfilled(201)
    /\ pw_asserted = 0


\* C12: with the post and the comment created (201), a 404 answer to the
\* final GET never makes an expect fail; an answer other than 404 makes an
\* expect fail exactly when the returned post's id differs from the created
\* post's id.
C12_NotFoundIsExpected ==
    Len(cw_responses) = 4
        => (/\ cw_responses[2] = 201 /\ cw_responses[3] = 201
            /\ cw_responses[4] = 404 => cw_outcome # "assert_failed"
            /\ cw_responses[4] # 404
                => (cw_outcome = "assert_failed"
                        <=> ~ ToBe(cw_finalPost.v.id, cw_createdPost.v.id)))

\* the final GET was answered 404 and the workflow passed
C12_Witness ==
    /\ Len(cw_responses) = 4
    /\ cw_responses[4] = 404
    /\ cw_outcome = "passed"

\* C17: the complete workflow never has two requests in flight; each request
\* is issued only after the response to the one before it: POST /posts after
\* the 200 of GET /users and carrying the first user's id, POST /comments
\* after the 201 of POST /posts and carrying that response's post id, the
\* final GET after the 201 of POST /comments.
C17_StrictlyOrdered ==
    /\ Cardinality(cw_inflight) <= 1
    /\ Len(cw_sent) <= Len(cw_responses) + 1
    /\ Len(cw_sent) >= 2
        => (/\ cw_responses[1] = 200
            /\ ToBe(cw_postData.v.userId, cw_selectedUser.v.id))
    /\ Len(cw_sent) >= 3
        => (/\ cw_responses[2] = 201
            /\ ToBe(cw_commentData.v.postId, cw_createdPost.v.id))
    /\ Len(cw_sent) >= 4 => cw_responses[3] = 201


-----------------------------------------------------------------------------
(* Properties of the set-up *)

Count(seq, x) == Cardinality({i \in DOMAIN seq : seq[i] = x})

IsPrefix(a, b) == Len(a) <= Len(b) /\ \A i \in DOMAIN a : a[i] = b[i]

C14_BaseUrlFromEnvironment ==
    cfg_file # "none"
        => cfg.baseURL = IF cfg_env.API_BASE_URL.t = "undefined"
                         THEN DefaultBaseURL ELSE cfg_env.API_BASE_URL

\* C20: the verification fetches /users, /posts, /comments in this order,
\* one at a time, after the connectivity fetch whatever its outcome; when a
\* fetch or a JSON parse fails, the verification logs exactly one warning and
\* fetches no later endpoint; without a failure it logs none and fetches all.
C20_VerificationStopsAtFirstFailure ==
    /\ IsPrefix(gs_fetched, <<ConnectivityUrl>> \o endpoints)
    /\ Cardinality(gs_inflight) <= 1
    /\ Count(gs_log, "warn verify") <= 1
    /\ Count(gs_log, "warn verify") = 1
        => (/\ gs_pc = "done"
            /\ Len(gs_fetched) = Count(gs_log, "records") + 2)
    /\ gs_pc = "done"
        => (/\ Len(gs_fetched) >= 2
            /\ Count(gs_log, "warn verify") = 0
                <=> Count(gs_log, "records") = Len(endpoints))

\* the connectivity fetch was rejected, /users was verified, /posts failed
\* and /comments was never fetched
C20_Witness ==
    /\ gs_pc = "done"
    /\ Count(gs_log, "error connectivity") = 1
    /\ gs_fetched = <<ConnectivityUrl, "/users", "/posts">>
    /\ Count(gs_log, "warn verify") = 1

-----------------------------------------------------------------------------
(* Properties of the other test scripts *)

\* C15: in every run of the 'create multiple posts' test that created its 3
\* posts, the 3 titles generatePost() produced are pairwise distinct, so are
\* the 3 created titles, and the test's check of the unique titles passes.
C15_ThreeDistinctTitles ==
    Len(mp_createdPosts) = postsToCreate
        => (/\ UniqueCount(mp_titles) = postsToCreate
            /\ UniqueCount([i \in DOMAIN mp_createdPosts
                               |-> mp_createdPosts[i].v.title]) = postsToCreate
            /\ mp_outcome = "passed")

\* C16: when the complex workflow reaches its validation phase, whatever the
\* users listed and the ids assigned: there are 2 posts per selected user
\* (3 users at most), as many comments as posts, every user of the
\* relationship map has exactly 2 post ids, and every post id of the map is
\* the postId of a created comment.
C16_ComplexValidationHolds ==
    cx_pc = "validated"
        => (/\ Len(cx_users) <= SelectedUsers
            /\ Len(cx_posts) = 2 * Len(cx_users)
            /\ Len(cx_comments) = Len(cx_posts)
            /\ DOMAIN cx_relationships = {cx_users[u].v.id : u \in DOMAIN cx_users}
            /\ \A userId \in DOMAIN cx_relationships :
                /\ Len(cx_relationships[userId]) = 2
                /\ \A k \in 1..2 :
                    \E c \in DOMAIN cx_comments :
                        LooseEquals(cx_comments[c].v.postId,
                                    cx_relationships[userId][k])
            /\ cx_outcome = "passed")

\* C18: in the recovery step of the error-scenarios test, a fallback post is
\* created exactly when GET /users/999 answered 404 and GET /users returned a
\* first user; it carries that user's id and the test then passes exactly
\* when its status is 201. When GET /users/999 answered something else, or
\* the catch block ran, no fallback post is created and the test passes.
C18_RecoveryStep ==
    /\ Len(es_sent) = 5
        => (/\ es_responses[3] = 404
            /\ es_sent[4] = "GET /users"
            /\ ~ es_caught
            /\ es_users.t = "array" /\ Len(es_users.v) > 0
            /\ es_userToUse = es_users.v[1]
            /\ ToBe(es_fallbackPostData.v.userId, es_userToUse.v.id))
    /\ Len(es_responses) = 5
        => es_outcome = (IF es_responses[5] = 201 THEN "passed" ELSE "assert_failed")
    /\ (es_users.t = "array" /\ Len(es_users.v) > 0) => Len(es_sent) = 5
    /\ (Len(es_responses) >= 3 /\ es_responses[3] # 404)
        => (es_pc = "done" /\ Len(es_sent) = 3 /\ es_outcome = "passed")
    /\ es_caught
        => (/\ es_pc = "done" /\ es_outcome = "passed"
            /\ Len(es_sent) < 5 /\ es_fallbackPostData.t = "undefined")

\* the parallel workflow has a request that is not settled
PwRequesting(fetch, create) ==
    \/ \E k \in DOMAIN fetch : fetch[k].st = "inflight"
    \/ \E k \in DOMAIN create : create[k].st = "inflight"

\* C19: in every workflow test, the step in which an expectation fails sends
\* no request and no step after it does; a status other than the expected
\* one received by the complete workflow, the multiple-posts test or the
\* error-scenarios test is the last thing the test receives; and the complete
\* workflow sends its comment (its third request) only after a 201 to its
\* post (its second response).
C19_FailFast ==
    /\ [][/\ (cw_outcome' = "assert_failed") => cw_sent' = cw_sent
          /\ (mp_outcome' = "assert_failed") => mp_sent' = mp_sent
          /\ (cx_outcome' = "assert_failed") => cx_sent' = cx_sent
          /\ (es_outcome' = "assert_failed") => es_sent' = es_sent
          /\ (pw_outcome' = "assert_failed")
                => (pw_fetch' = pw_fetch /\ pw_create' = pw_create)]_vars
    /\ [](Len(cw_sent) >= 3 => cw_responses[2] = 201)
    /\ []((Len(cw_responses) >= 2 /\ cw_responses[2] # 201)
            => (cw_outcome = "assert_failed" /\ Len(cw_sent) = 2))
    /\ [](\A k \in DOMAIN mp_responses :
            mp_responses[k] # 201
                => (mp_outcome = "assert_failed" /\ Len(mp_sent) = k))
    /\ []((Len(es_responses) >= 1 /\ es_responses[1] # 201)
            => (es_outcome = "assert_failed" /\ Len(es_sent) = 1))
    /\ [](cx_outcome = "assert_failed" => cx_pc \in {"done", "validated"})
    /\ [](pw_outcome = "assert_failed" => ~ PwRequesting(pw_fetch, pw_create))

\* the post creation of the complete workflow was answered with another
\* status than 201: the test has failed with two requests sent
C19_Witness ==
    /\ cw_outcome = "assert_failed"
    /\ Len(cw_responses) = 2
    /\ cw_responses[2] # 201
    /\ Len(cw_sent) = 2

\* the requests of the complex workflow whose response was received and
\* recorded: GET /users once answered, and one per post and comment
CxRecorded ==
    (IF cx_pc \in {"start", "await_users"} THEN 0 ELSE 1)
        + Len(cx_posts) + Len(cx_comments)

\* C21: in the 3-post loop and in the post and comment loops of the complex
\* workflow at most one request is in flight; every request but the last one
\* sent was answered, and answered 201 when it is a request of a loop, before
\* the next was sent; and the created objects are recorded in the order of
\* the requests: the i-th created post answers the i-th request, the posts of
\* the u-th user are the (2u-1)-th and 2u-th, all posts precede all comments
\* and the i-th comment is the one built for the i-th post.
C21_SequentialLoops ==
    /\ Len(mp_sent) - Len(mp_responses) \in {0, 1}
    /\ mp_pc = "await_post" => Len(mp_sent) = Len(mp_responses) + 1
    /\ \A k \in 1..(Len(mp_sent) - 1) : mp_responses[k] = 201
    /\ Len(mp_createdPosts)
        = Cardinality({k \in DOMAIN mp_responses : mp_responses[k] = 201})
    /\ Len(mp_titles) = Len(mp_sent)
    /\ \A i \in DOMAIN mp_createdPosts :
        mp_createdPosts[i].v.title \in {Str(mp_titles[i]), Str("other")}
    /\ Len(cx_sent) - CxRecorded \in {0, 1}
    /\ cx_pc \in {"await_users", "await_post", "await_comment"}
        => Len(cx_sent) = CxRecorded + 1
    /\ \A i \in DOMAIN cx_sent :
        cx_sent[i] = (IF i = 1 THEN "GET /users"
                      ELSE IF i <= 1 + Len(cx_users) * PostsPerUser
                      THEN "POST /posts" ELSE "POST /comments")
    /\ Len(cx_comments) > 0 => Len(cx_posts) = Len(cx_users) * PostsPerUser
    /\ \A i \in DOMAIN cx_posts :
        LET key == cx_users[((i - 1) \div PostsPerUser) + 1].v.id IN
        /\ key \in DOMAIN cx_relationships
        /\ cx_relationships[key][((i - 1) % PostsPerUser) + 1] = cx_posts[i].v.id
    /\ \A i \in DOMAIN cx_comments :
        Truthy(cx_posts[i].v.id)
            => LooseEquals(cx_comments[i].v.postId, cx_posts[i].v.id)

\* the complex workflow ran both loops to their end for three users: 13
\* requests, 6 posts and 6 comments recorded
C21_Witness ==
    /\ cx_pc = "validated"
    /\ Len(cx_sent) = 13
    /\ Len(cx_posts) = 6
    /\ Len(cx_comments) = 6
    /\ \E i \in 1..6 : cx_posts[i].v.id # cx_posts[1].v.id

=============================================================================
